---- MODULE Spec2Model ----
(***************************************************************************)
(* Render pipeline of the two renderers of the repository:                 *)
(*   - the stream handler  (src/backend/ffmpeg-renderer/index.js): image    *)
(*     sequence -> mp4, streamed back as the HTTP response body;            *)
(*   - the upload handler  (src/unnamed/part_000): background video plus    *)
(*     title -> mp4, uploaded to object storage.                            *)
(* One behaviour is one deployment (one of the two servers) serving up to   *)
(* NReq concurrent POST /render requests.  Every action is one run of the   *)
(* handler between two suspension points (await / event callback).          *)
(* Strings are sequences of tokens; string concatenation is \o.             *)
(***************************************************************************)
EXTENDS Integers, Sequences, FiniteSets, TLC

\* ---------------------------------------------------------------- bounds
NReq == 2
MaxClock == 1
MaxImages == 2

Req == 1..NReq
\* owner tag of directories and files that exist before any request
Module == 0

\* ------------------------------------------------------- input alphabets
Undefined == <<"<undefined>">>
URLs == <<"a.jpg", "b.jpg">>
BgUrls == {<<"https://x/bg.mp4">>}
VideoIds == {<<"v1">>}
Titles == {<<"Hello">>, <<"It", "'", "s">>}
DiagMsgs == {<<"ffmpeg exited with code 1">>, <<"Invalid data found when processing input">>}

\* ------------------------------------------------------ string helpers
Digits == <<"0", "1", "2", "3", "4", "5", "6", "7", "8", "9">>
\* number -> decimal string, as `'temp-' + Date.now()` and `image-${i}` do
ToStr(n) == IF n < 10 THEN <<Digits[n + 1]>>
            ELSE <<Digits[(n \div 10) + 1], Digits[(n % 10) + 1]>>
\* template interpolation `${v}` of a possibly undefined value
Interp(v) == IF v = Undefined THEN <<"undefined">> ELSE v
\* JavaScript `!v` for an undefined value, a string or an array
Falsy(v) == v = Undefined \/ v = <<>>
\* path.join(a, b)
Join(a, b) == a \o <<"/">> \o b
IsPrefix(p, s) == Len(p) <= Len(s) /\ SubSeq(s, 1, Len(p)) = p
\* q lies inside directory d
Under(q, d) == IsPrefix(d \o <<"/">>, q)
\* m occurs in s as a contiguous run of tokens
Carries(s, m) == \E k \in 0..(Len(s) - Len(m)) : SubSeq(s, k + 1, k + Len(m)) = m

Dirname == <<"/app">>

\* ------------------------------------------------------------- state
VARIABLES
    deployment,     \* "stream" | "upload": which server this behaviour runs
    clock,          \* Date.now()
    crashed,        \* the node process died of an uncaught exception
    pc,             \* position of each request's handler
    images,         \* req.body.images            (stream handler)
    title,          \* req.body.title             (upload handler)
    backgroundVideoUrl,
    videoId,
    workDir,        \* stream: temp-<clock>; upload: TMP_DIR
    idx,            \* loop variable i of the download loop
    imagePaths,     \* paths pushed so far
    fetchLog,       \* response.ok of every fetch issued and answered
    fetches,        \* number of fetch() calls issued
    downloads,      \* what each completed pipeline() wrote: source url, local path
    encProc,        \* encoder subprocess: "none" | "Running" | "Ended" | "Failed"
    encLaunches,    \* number of times the encoder was started
    encOutcome,     \* what the encoder left at the output path on 'end'
    encDiag,        \* err.message of the encoder's 'error' event
    encInputs,      \* inputs handed to the encoder
    publishStarted, \* createReadStream for streaming / upload was reached
    streamSt,       \* read stream: "none" | "opening" | "flowing" | "unpiped" | "closed"
    uploadSt,       \* s3.upload: "none" | "inflight" | "ok" | "failed"
    s3Result,       \* s3UploadResult.Location
    s3,             \* objects in the bucket: key -> request that wrote it
    resp,           \* responses sent on res, in order
    cancelled,      \* the client went away
    stalled,        \* the pending external operation will never complete
    dirs,           \* existing directories: path -> creating request
    files           \* existing files: path -> [size, owner]

vars == <<deployment, clock, crashed, pc, images, title, backgroundVideoUrl,
          videoId, workDir, idx, imagePaths, fetchLog, fetches, downloads, encProc,
          encLaunches, encOutcome, encDiag, encInputs, publishStarted,
          streamSt, uploadSt, s3Result, s3, resp, cancelled, stalled, dirs,
          files>>

reqVars == <<images, title, backgroundVideoUrl, videoId, workDir>>
fetchVars == <<idx, imagePaths, fetchLog, fetches, downloads>>
encVars == <<encProc, encLaunches, encOutcome, encDiag, encInputs>>
pubVars == <<publishStarted, streamSt, uploadSt, s3Result, s3>>
envVars == <<deployment, clock, crashed, cancelled, stalled>>
fsVars == <<dirs, files>>

\* ------------------------------------------------------------ file system
EmptyFn == [p \in {} |-> 0]
Exists(p) == p \in DOMAIN dirs \/ p \in DOMAIN files
\* fs.mkdirSync(d) by request r
MkDir(ds, d, r) == [p \in (DOMAIN ds) \cup {d} |-> IF p = d THEN r ELSE ds[p]]
\* a completed write of sz bytes to path p by request r
WriteFile(fl, p, sz, r) ==
    [q \in (DOMAIN fl) \cup {p} |-> IF q = p THEN [size |-> sz, owner |-> r] ELSE fl[q]]
\* fs.unlinkSync(p)
Unlink(fl, p) == [q \in (DOMAIN fl) \ {p} |-> fl[q]]
\* fs.rmSync(d, {recursive: true, force: true}): directories left
RmDirs(ds, d) == [p \in {q \in DOMAIN ds : q # d /\ ~Under(q, d)} |-> ds[p]]
\* fs.rmSync(d, {recursive: true, force: true}): files left
RmFiles(fl, d) == [p \in {q \in DOMAIN fl : q # d /\ ~Under(q, d)} |-> fl[p]]

\* --------------------------------------------------------------- paths
\* stream handler: path.join(__dirname, 'temp-' + Date.now())
StreamWorkDir(now) == Join(Dirname, <<"temp-">> \o ToStr(now))
\* stream handler: path.join(workDir, `image-${i}.jpg`)
ImgPath(wd, i) == Join(wd, <<"image-">> \o ToStr(i) \o <<".jpg">>)
\* stream handler: path.join(workDir, 'output.mp4')
StreamOutputPath(wd) == Join(wd, <<"output.mp4">>)
\* upload handler: path.join(__dirname, 'temp')
TMP_DIR == Join(Dirname, <<"temp">>)
\* upload handler: `${videoId}-final-video.mp4`
OutputFileName(vid) == Interp(vid) \o <<"-final-video.mp4">>
\* upload handler: path.join(TMP_DIR, outputFileName)
UploadOutputPath(vid) == Join(TMP_DIR, OutputFileName(vid))
\* upload handler: path.join(TMP_DIR, 'bg.mp4')
BgVideoPath == Join(TMP_DIR, <<"bg.mp4">>)
\* the output path of request r in the running deployment
OutputPath(r) == IF deployment = "stream" THEN StreamOutputPath(workDir[r])
                 ELSE UploadOutputPath(videoId[r])
\* s3UploadResult.Location for an object key
LocationOf(key) == <<"https://bucket/">> \o key

\* ------------------------------------------------------------ responses
JsonResp(st, flds, ok, err, url) ==
    [kind |-> "json", status |-> st, fields |-> flds, success |-> ok,
     error |-> err, videoUrl |-> url]
\* raw video/mp4 body piped into res
StreamResp ==
    [kind |-> "stream", status |-> 200, fields |-> {}, success |-> FALSE,
     error |-> <<>>, videoUrl |-> <<>>]
IsSuccess(m) == m.kind = "stream" \/ (m.kind = "json" /\ m.status = 200)
IsFailure(m) == m.kind = "json" /\ m.status >= 400 /\ "error" \in m.fields
IsValidationError(m) == m.kind = "json" /\ m.status = 400 /\ "error" \in m.fields
HasSuccess(r) == \E k \in 1..Len(resp[r]) : IsSuccess(resp[r][k])
HasFailure(r) == \E k \in 1..Len(resp[r]) : IsFailure(resp[r][k])

InFlight(r) == pc[r] \notin {"idle", "done"}

\* ------------------------------------------------------------------ Init
Init ==
    /\ deployment \in {"stream", "upload"}
    /\ clock = 0
    /\ crashed = FALSE
    /\ pc = [r \in Req |-> "idle"]
    /\ images = [r \in Req |-> Undefined]
    /\ title = [r \in Req |-> Undefined]
    /\ backgroundVideoUrl = [r \in Req |-> Undefined]
    /\ videoId = [r \in Req |-> Undefined]
    /\ workDir = [r \in Req |-> <<>>]
    /\ idx = [r \in Req |-> 0]
    /\ imagePaths = [r \in Req |-> <<>>]
    /\ fetchLog = [r \in Req |-> <<>>]
    /\ fetches = [r \in Req |-> 0]
    /\ downloads = [r \in Req |-> <<>>]
    /\ encProc = [r \in Req |-> "none"]
    /\ encLaunches = [r \in Req |-> 0]
    /\ encOutcome = [r \in Req |-> "none"]
    /\ encDiag = [r \in Req |-> <<>>]
    /\ encInputs = [r \in Req |-> <<>>]
    /\ publishStarted = [r \in Req |-> FALSE]
    /\ streamSt = [r \in Req |-> "none"]
    /\ uploadSt = [r \in Req |-> "none"]
    /\ s3Result = [r \in Req |-> <<>>]
    /\ s3 = EmptyFn
    /\ resp = [r \in Req |-> <<>>]
    /\ cancelled = [r \in Req |-> FALSE]
    /\ stalled = [r \in Req |-> FALSE]
    \* the upload server creates TMP_DIR when the module loads; bg.mp4 is
    \* never downloaded by the code, the operator has to place it there
    /\ dirs = IF deployment = "upload" THEN MkDir(EmptyFn, TMP_DIR, Module) ELSE EmptyFn
    /\ \E bgPresent \in BOOLEAN :
          files = IF deployment = "upload" /\ bgPresent
                  THEN WriteFile(EmptyFn, BgVideoPath, 1, Module)
                  ELSE EmptyFn

\* ------------------------------------------------------------- the clock
\* requests are numbered in their order of arrival
NextToArrive(r) == pc[r] = "idle" /\ \A q \in Req : q < r => pc[q] # "idle"

\* Date.now() advances; it is read only when a stream request arrives
Tick ==
    /\ ~crashed
    /\ deployment = "stream"
    /\ \E r \in Req : pc[r] = "idle"
    /\ clock < MaxClock
    /\ clock' = clock + 1
    /\ UNCHANGED <<deployment, crashed, cancelled, stalled, pc, reqVars,
                   fetchVars, encVars, pubVars, resp, fsVars>>

\* ======================================================= stream handler
FetchOutcomes == {"ok", "http_error", "network_error"}
EncoderResults == {"full", "empty", "none"}

Send(r, m) == [resp EXCEPT ![r] = Append(@, m)]

\* what lies at path p: "full" | "empty" | "missing"
FileState(fl, p) == IF p \notin DOMAIN fl THEN "missing"
                    ELSE IF fl[p].size > 0 THEN "full" ELSE "empty"

\* the files after the encoder of request r reported 'end' with result out
AfterEncode(fl, ds, wd, p, out, r) ==
    IF wd \notin DOMAIN ds \/ out = "none" THEN fl
    ELSE WriteFile(fl, p, IF out = "full" THEN 1 ELSE 0, r)

\* catch (error) { res.status(500).json({error: error.message});
\*                 if (fs.existsSync(workDir)) fs.rmSync(workDir, ...) }
StreamCatch(r, msg) ==
    /\ resp' = Send(r, JsonResp(500, {"error"}, FALSE, msg, <<>>))
    /\ dirs' = IF workDir[r] \in DOMAIN dirs THEN RmDirs(dirs, workDir[r]) ELSE dirs
    /\ files' = IF workDir[r] \in DOMAIN dirs THEN RmFiles(files, workDir[r]) ELSE files
    /\ pc' = [pc EXCEPT ![r] = "done"]

\* POST /render arrives: workDir, validation, mkdir, first fetch issued
StreamReceive(r, imgs) ==
    /\ ~crashed
    /\ deployment = "stream"
    /\ NextToArrive(r)
    /\ images' = [images EXCEPT ![r] = imgs]
    /\ workDir' = [workDir EXCEPT ![r] = StreamWorkDir(clock)]
    /\ IF Falsy(imgs)
       THEN /\ resp' = Send(r, JsonResp(400, {"error"}, FALSE, <<"No images provided">>, <<>>))
            /\ pc' = [pc EXCEPT ![r] = "done"]
            /\ UNCHANGED <<fsVars, fetches>>
       ELSE /\ dirs' = IF StreamWorkDir(clock) \in DOMAIN dirs THEN dirs
                       ELSE MkDir(dirs, StreamWorkDir(clock), r)
            /\ fetches' = [fetches EXCEPT ![r] = 1]
            /\ pc' = [pc EXCEPT ![r] = "fetch"]
            /\ UNCHANGED <<files, resp>>
    /\ UNCHANGED <<envVars, title, backgroundVideoUrl, videoId, idx, imagePaths,
                   fetchLog, downloads, encVars, pubVars>>

\* FetchRespond without the `if (!response.ok) throw`: an error status is
\* written to disk like an image
FetchRespond_IgnoresStatus(r, outcome) ==
    /\ ~crashed
    /\ deployment = "stream"
    /\ pc[r] = "fetch"
    /\ ~stalled[r]
    /\ fetchLog' = [fetchLog EXCEPT ![r] = Append(@, outcome)]
    /\ IF outcome \in {"ok", "http_error"}
       THEN /\ pc' = [pc EXCEPT ![r] = "pipe"]
            /\ UNCHANGED <<resp, fsVars>>
       ELSE StreamCatch(r, <<"request failed">>)
    /\ UNCHANGED <<envVars, reqVars, idx, imagePaths, fetches, downloads, encVars, pubVars>>

\* `await fetch(images[i])` settles; `if (!response.ok) throw`
FetchRespond(r, outcome) ==
    /\ ~crashed
    /\ deployment = "stream"
    /\ pc[r] = "fetch"
    /\ ~stalled[r]
    /\ fetchLog' = [fetchLog EXCEPT ![r] = Append(@, outcome)]
    /\ IF outcome = "ok"
       THEN /\ pc' = [pc EXCEPT ![r] = "pipe"]
            /\ UNCHANGED <<resp, fsVars>>
       ELSE IF outcome = "http_error"
       THEN StreamCatch(r, <<"Failed to fetch image ">> \o ToStr(idx[r]))
       ELSE StreamCatch(r, <<"request failed">>)
    /\ UNCHANGED <<envVars, reqVars, idx, imagePaths, fetches, downloads, encVars, pubVars>>

\* `await pipeline(response.body, fs.createWriteStream(imgPath))` settles,
\* then imagePaths.push, i++, and either the next fetch or the encoder launch
PipelineDone(r, ok) ==
    /\ ~crashed
    /\ deployment = "stream"
    /\ pc[r] = "pipe"
    /\ ~stalled[r]
    /\ IF ok /\ workDir[r] \in DOMAIN dirs
       THEN /\ files' = WriteFile(files, ImgPath(workDir[r], idx[r]), 1, r)
            /\ imagePaths' = [imagePaths EXCEPT ![r] = Append(@, ImgPath(workDir[r], idx[r]))]
            /\ downloads' = [downloads EXCEPT ![r] =
                                Append(@, [url |-> images[r][idx[r] + 1],
                                           path |-> ImgPath(workDir[r], idx[r])])]
            /\ idx' = [idx EXCEPT ![r] = @ + 1]
            /\ IF idx[r] + 1 < Len(images[r])
               THEN /\ fetches' = [fetches EXCEPT ![r] = @ + 1]
                    /\ pc' = [pc EXCEPT ![r] = "fetch"]
                    /\ UNCHANGED <<encProc, encLaunches, encInputs>>
               ELSE /\ encProc' = [encProc EXCEPT ![r] = "Running"]
                    /\ encLaunches' = [encLaunches EXCEPT ![r] = @ + 1]
                    /\ encInputs' = [encInputs EXCEPT ![r] = imagePaths'[r]]
                    /\ pc' = [pc EXCEPT ![r] = "encode"]
                    /\ UNCHANGED fetches
            /\ UNCHANGED <<resp, dirs>>
       ELSE /\ StreamCatch(r, IF ok THEN <<"ENOENT">> ELSE <<"Premature close">>)
            /\ UNCHANGED <<idx, imagePaths, fetches, downloads, encProc, encLaunches,
                           encInputs>>
    /\ UNCHANGED <<envVars, reqVars, fetchLog, encOutcome, encDiag, pubVars>>

\* the encoder's 'end' event in the stream handler: resolve, then
\* setHeader, createReadStream(outputPath), stream.pipe(res), on('close')
StreamEncoderEnd(r, out) ==
    /\ ~crashed
    /\ deployment = "stream"
    /\ pc[r] = "encode"
    /\ ~stalled[r]
    /\ files' = AfterEncode(files, dirs, workDir[r], OutputPath(r), out, r)
    /\ encProc' = [encProc EXCEPT ![r] = "Ended"]
    /\ encOutcome' = [encOutcome EXCEPT ![r] = FileState(files', OutputPath(r))]
    /\ publishStarted' = [publishStarted EXCEPT ![r] = TRUE]
    /\ streamSt' = [streamSt EXCEPT ![r] = "opening"]
    /\ pc' = [pc EXCEPT ![r] = "streaming"]
    /\ UNCHANGED <<envVars, reqVars, fetchVars, encLaunches, encDiag, encInputs,
                   uploadSt, s3Result, s3, resp, dirs>>

\* StreamEncoderError that starts the encoder a second time before giving up
StreamEncoderError_Retries(r, msg) ==
    /\ ~crashed
    /\ deployment = "stream"
    /\ pc[r] = "encode"
    /\ ~stalled[r]
    /\ encDiag' = [encDiag EXCEPT ![r] = msg]
    /\ IF encLaunches[r] < 2
       THEN /\ encProc' = [encProc EXCEPT ![r] = "Running"]
            /\ encLaunches' = [encLaunches EXCEPT ![r] = @ + 1]
            /\ UNCHANGED <<pc, resp, fsVars>>
       ELSE /\ encProc' = [encProc EXCEPT ![r] = "Failed"]
            /\ StreamCatch(r, msg)
            /\ UNCHANGED encLaunches
    /\ UNCHANGED <<envVars, reqVars, fetchVars, encOutcome, encInputs, pubVars>>

\* the encoder's 'error' event in the stream handler: reject(err) -> catch
StreamEncoderError(r, msg) ==
    /\ ~crashed
    /\ deployment = "stream"
    /\ pc[r] = "encode"
    /\ ~stalled[r]
    /\ encProc' = [encProc EXCEPT ![r] = "Failed"]
    /\ encDiag' = [encDiag EXCEPT ![r] = msg]
    /\ StreamCatch(r, msg)
    /\ UNCHANGED <<envVars, reqVars, fetchVars, encLaunches, encOutcome, encInputs,
                   pubVars>>

\* the read stream opens the output file; a failed open emits 'error' on a
\* stream without an 'error' listener, which ends the process
StreamOpen(r) ==
    /\ ~crashed
    /\ deployment = "stream"
    /\ streamSt[r] = "opening"
    /\ IF OutputPath(r) \in DOMAIN files
       THEN /\ streamSt' = [streamSt EXCEPT ![r] = "flowing"]
            /\ resp' = Send(r, StreamResp)
            /\ UNCHANGED crashed
       ELSE /\ crashed' = TRUE
            /\ UNCHANGED <<streamSt, resp>>
    /\ UNCHANGED <<deployment, clock, cancelled, stalled, pc, reqVars, fetchVars,
                   encVars, publishStarted, uploadSt, s3Result, s3, fsVars>>

\* the client is gone and res closes: pipe() unpipes the source and leaves
\* it paused; the source is never destroyed, so 'close' never fires
StreamUnpipe(r) ==
    /\ ~crashed
    /\ deployment = "stream"
    /\ streamSt[r] = "flowing"
    /\ cancelled[r]
    /\ streamSt' = [streamSt EXCEPT ![r] = "unpiped"]
    /\ UNCHANGED <<envVars, pc, reqVars, fetchVars, encVars, publishStarted,
                   uploadSt, s3Result, s3, resp, fsVars>>

\* stream.on('close'): fs.rmSync(workDir, {recursive: true, force: true})
StreamClose(r) ==
    /\ ~crashed
    /\ deployment = "stream"
    /\ streamSt[r] = "flowing"
    /\ streamSt' = [streamSt EXCEPT ![r] = "closed"]
    /\ dirs' = RmDirs(dirs, workDir[r])
    /\ files' = RmFiles(files, workDir[r])
    /\ pc' = [pc EXCEPT ![r] = "done"]
    /\ UNCHANGED <<envVars, reqVars, fetchVars, encVars, publishStarted,
                   uploadSt, s3Result, s3, resp>>

\* ======================================================= upload handler
\* catch (e) { res.status(500).json({success: false,
\*             error: `Video rendering failed: ${e.message}`}) }
UploadCatch(r, msg) ==
    /\ resp' = Send(r, JsonResp(500, {"success", "error"}, FALSE,
                                <<"Video rendering failed: ">> \o msg, <<>>))
    /\ pc' = [pc EXCEPT ![r] = "done"]

\* POST /render arrives: validation, paths, (download stub), encoder launch
UploadReceive(r, t, bg, vid) ==
    /\ ~crashed
    /\ deployment = "upload"
    /\ NextToArrive(r)
    /\ title' = [title EXCEPT ![r] = t]
    /\ backgroundVideoUrl' = [backgroundVideoUrl EXCEPT ![r] = bg]
    /\ videoId' = [videoId EXCEPT ![r] = vid]
    /\ workDir' = [workDir EXCEPT ![r] = TMP_DIR]
    /\ IF Falsy(bg) \/ Falsy(vid)
       THEN /\ resp' = Send(r, JsonResp(400, {"success", "error"}, FALSE,
                                <<"Missing background video URL or videoId.">>, <<>>))
            /\ pc' = [pc EXCEPT ![r] = "done"]
            /\ UNCHANGED <<encProc, encLaunches, encInputs>>
       ELSE /\ encProc' = [encProc EXCEPT ![r] = "Running"]
            /\ encLaunches' = [encLaunches EXCEPT ![r] = @ + 1]
            /\ encInputs' = [encInputs EXCEPT ![r] = <<BgVideoPath>>]
            /\ pc' = [pc EXCEPT ![r] = "encode"]
            /\ UNCHANGED resp
    /\ UNCHANGED <<envVars, images, fetchVars, encOutcome, encDiag, pubVars, fsVars>>

\* the encoder's 'end' event in the upload handler: resolve(outputPath),
\* then createReadStream(finalVideoPath) and s3.upload(uploadParams)
UploadEncoderEnd(r, out) ==
    /\ ~crashed
    /\ deployment = "upload"
    /\ pc[r] = "encode"
    /\ ~stalled[r]
    /\ BgVideoPath \in DOMAIN files
    /\ files' = AfterEncode(files, dirs, workDir[r], OutputPath(r), out, r)
    /\ encProc' = [encProc EXCEPT ![r] = "Ended"]
    /\ encOutcome' = [encOutcome EXCEPT ![r] = FileState(files', OutputPath(r))]
    /\ publishStarted' = [publishStarted EXCEPT ![r] = TRUE]
    /\ uploadSt' = [uploadSt EXCEPT ![r] = "inflight"]
    /\ pc' = [pc EXCEPT ![r] = "upload"]
    /\ UNCHANGED <<envVars, reqVars, fetchVars, encLaunches, encDiag, encInputs,
                   streamSt, s3Result, s3, resp, dirs>>

\* UploadEncoderError rejecting with a fixed text instead of err.message
UploadEncoderError_DropsMessage(r, msg) ==
    /\ ~crashed
    /\ deployment = "upload"
    /\ pc[r] = "encode"
    /\ ~stalled[r]
    /\ encProc' = [encProc EXCEPT ![r] = "Failed"]
    /\ encDiag' = [encDiag EXCEPT ![r] = msg]
    /\ UploadCatch(r, <<"FFmpeg failed">>)
    /\ UNCHANGED <<envVars, reqVars, fetchVars, encLaunches, encOutcome, encInputs,
                   pubVars, fsVars>>

\* the encoder's 'error' event in the upload handler:
\* reject(new Error(`FFmpeg failed: ${err.message}`)) -> catch
UploadEncoderError(r, msg) ==
    /\ ~crashed
    /\ deployment = "upload"
    /\ pc[r] = "encode"
    /\ ~stalled[r]
    /\ encProc' = [encProc EXCEPT ![r] = "Failed"]
    /\ encDiag' = [encDiag EXCEPT ![r] = msg]
    /\ UploadCatch(r, <<"FFmpeg failed: ">> \o msg)
    /\ UNCHANGED <<envVars, reqVars, fetchVars, encLaunches, encOutcome, encInputs,
                   pubVars, fsVars>>

\* UploadDone that answers with the expected object URL without looking at
\* the outcome of the upload
UploadDone_IgnoresOutcome(r, ok) ==
    /\ ~crashed
    /\ deployment = "upload"
    /\ pc[r] = "upload"
    /\ ~stalled[r]
    /\ uploadSt' = [uploadSt EXCEPT ![r] = IF ok /\ encOutcome[r] # "missing" THEN "ok" ELSE "failed"]
    /\ s3' = IF ok /\ encOutcome[r] # "missing"
             THEN [k \in (DOMAIN s3) \cup {OutputFileName(videoId[r])} |->
                      IF k = OutputFileName(videoId[r]) THEN r ELSE s3[k]]
             ELSE s3
    /\ s3Result' = IF ok /\ encOutcome[r] # "missing"
                   THEN [s3Result EXCEPT ![r] = LocationOf(OutputFileName(videoId[r]))]
                   ELSE s3Result
    /\ files' = Unlink(files, OutputPath(r))
    /\ resp' = Send(r, JsonResp(200, {"success", "videoUrl"}, TRUE, <<>>,
                                LocationOf(OutputFileName(videoId[r]))))
    /\ pc' = [pc EXCEPT ![r] = "done"]
    /\ UNCHANGED <<envVars, reqVars, fetchVars, encVars, publishStarted, streamSt, dirs>>

\* UploadDone with res.json before fs.unlinkSync: a failing unlink reaches
\* the catch block after the success response was sent
UploadDone_RespondsBeforeUnlink(r, ok) ==
    /\ ~crashed
    /\ deployment = "upload"
    /\ pc[r] = "upload"
    /\ ~stalled[r]
    /\ IF ok /\ encOutcome[r] # "missing"
       THEN /\ uploadSt' = [uploadSt EXCEPT ![r] = "ok"]
            /\ s3' = [k \in (DOMAIN s3) \cup {OutputFileName(videoId[r])} |->
                        IF k = OutputFileName(videoId[r]) THEN r ELSE s3[k]]
            /\ s3Result' = [s3Result EXCEPT ![r] = LocationOf(OutputFileName(videoId[r]))]
            /\ pc' = [pc EXCEPT ![r] = "done"]
            /\ IF OutputPath(r) \in DOMAIN files
               THEN /\ files' = Unlink(files, OutputPath(r))
                    /\ resp' = Send(r, JsonResp(200, {"success", "videoUrl"}, TRUE,
                                                <<>>, s3Result'[r]))
               ELSE /\ resp' = [resp EXCEPT ![r] =
                                  @ \o << JsonResp(200, {"success", "videoUrl"}, TRUE,
                                                   <<>>, s3Result'[r]),
                                          JsonResp(500, {"success", "error"}, FALSE,
                                                   <<"Video rendering failed: ", "ENOENT">>,
                                                   <<>>) >>]
                    /\ UNCHANGED files
       ELSE /\ uploadSt' = [uploadSt EXCEPT ![r] = "failed"]
            /\ UploadCatch(r, IF ok THEN <<"ENOENT">> ELSE <<"Access Denied">>)
            /\ UNCHANGED <<s3, s3Result, files>>
    /\ UNCHANGED <<envVars, reqVars, fetchVars, encVars, publishStarted, streamSt, dirs>>

\* `await s3.upload(uploadParams).promise()` settles; on success
\* fs.unlinkSync(finalVideoPath) and res.json({success: true, videoUrl})
UploadDone(r, ok) ==
    /\ ~crashed
    /\ deployment = "upload"
    /\ pc[r] = "upload"
    /\ ~stalled[r]
    /\ IF ok /\ encOutcome[r] # "missing"
       THEN /\ uploadSt' = [uploadSt EXCEPT ![r] = "ok"]
            /\ s3' = [k \in (DOMAIN s3) \cup {OutputFileName(videoId[r])} |->
                        IF k = OutputFileName(videoId[r]) THEN r ELSE s3[k]]
            /\ s3Result' = [s3Result EXCEPT ![r] = LocationOf(OutputFileName(videoId[r]))]
            /\ IF OutputPath(r) \in DOMAIN files
               THEN /\ files' = Unlink(files, OutputPath(r))
                    /\ resp' = Send(r, JsonResp(200, {"success", "videoUrl"}, TRUE,
                                                <<>>, s3Result'[r]))
                    /\ pc' = [pc EXCEPT ![r] = "done"]
               ELSE /\ UploadCatch(r, <<"ENOENT">>)
                    /\ UNCHANGED files
       ELSE /\ uploadSt' = [uploadSt EXCEPT ![r] = "failed"]
            /\ UploadCatch(r, IF ok THEN <<"ENOENT">> ELSE <<"Access Denied">>)
            /\ UNCHANGED <<s3, s3Result, files>>
    /\ UNCHANGED <<envVars, reqVars, fetchVars, encVars, publishStarted, streamSt, dirs>>

\* ========================================================= environment
\* the client disconnects while the encoder runs or a read stream of the
\* output is open; neither handler listens for it
ClientAbort(r) ==
    /\ ~crashed
    /\ InFlight(r)
    /\ encProc[r] = "Running" \/ streamSt[r] \in {"opening", "flowing"} \/ uploadSt[r] = "inflight"
    /\ ~cancelled[r]
    /\ cancelled' = [cancelled EXCEPT ![r] = TRUE]
    /\ UNCHANGED <<deployment, clock, crashed, stalled, pc, reqVars, fetchVars,
                   encVars, pubVars, resp, fsVars>>

\* the remote end of the pending fetch / download / encoder / upload goes
\* silent for good; neither handler arms a timer
Hang(r) ==
    /\ ~crashed
    /\ pc[r] \in {"fetch", "pipe", "encode", "upload"}
    /\ ~stalled[r]
    /\ stalled' = [stalled EXCEPT ![r] = TRUE]
    /\ UNCHANGED <<deployment, clock, crashed, cancelled, pc, reqVars, fetchVars,
                   encVars, pubVars, resp, fsVars>>

\* request bodies the clients may send
ImageList(n) == [i \in 1..n |-> URLs[((i - 1) % Len(URLs)) + 1]]
ImageLists == {ImageList(n) : n \in 0..MaxImages}

\* the steps of the stream server and of its environment
NextStream ==
    \/ Tick
    \/ \E r \in Req, imgs \in ImageLists \cup {Undefined} : StreamReceive(r, imgs)
    \/ \E r \in Req, outcome \in FetchOutcomes : FetchRespond(r, outcome)
    \/ \E r \in Req, ok \in BOOLEAN : PipelineDone(r, ok)
    \/ \E r \in Req, out \in EncoderResults : StreamEncoderEnd(r, out)
    \/ \E r \in Req, msg \in DiagMsgs : StreamEncoderError(r, msg)
    \/ \E r \in Req : StreamOpen(r)
    \/ \E r \in Req : StreamUnpipe(r)
    \/ \E r \in Req : StreamClose(r)
    \/ \E r \in Req : ClientAbort(r)
    \/ \E r \in Req : Hang(r)

\* the steps of the upload server and of its environment
NextUpload ==
    \/ \E r \in Req, t \in Titles \cup {Undefined}, bg \in BgUrls \cup {Undefined},
          vid \in VideoIds \cup {Undefined} : UploadReceive(r, t, bg, vid)
    \/ \E r \in Req, out \in EncoderResults : UploadEncoderEnd(r, out)
    \/ \E r \in Req, msg \in DiagMsgs : UploadEncoderError(r, msg)
    \/ \E r \in Req, ok \in BOOLEAN : UploadDone(r, ok)
    \/ \E r \in Req : ClientAbort(r)
    \/ \E r \in Req : Hang(r)

Next == NextStream \/ NextUpload

Spec == Init /\ [][Next]_vars

\* the event loop runs every continuation whose event has arrived, and the
\* environment keeps delivering events except for operations that hang
FairSpec == Spec /\ WF_vars(Next)

\* the two servers taken one at a time
InitStream == Init /\ deployment = "stream"
SpecStream == InitStream /\ [][NextStream]_vars
InitUpload == Init /\ deployment = "upload"
SpecUpload == InitUpload /\ [][NextUpload]_vars

\* =========================================== image-sequence encode job
\* seconds of output per image: `.loop(3)` and `'-t ' + (imagePaths.length * 3)`
PerImageDuration == 3

\* `[${i}:v]scale=1080:1920:...,pad=1080:1920:(ow-iw)/2:(oh-ih)/2[v${i}];`
ScaleChain(i) ==
    <<"[">> \o ToStr(i) \o
    <<":v]", "scale=1080:1920:force_original_aspect_ratio=decrease", ",",
      "pad=1080:1920:(ow-iw)/2:(oh-ih)/2", "[v">> \o ToStr(i) \o <<"]", ";">>

\* imagePaths.map((_, i) => `[${i}:v]...[v${i}];`).join('') for n paths
RECURSIVE JoinChains(_)
JoinChains(n) == IF n = 0 THEN <<>> ELSE JoinChains(n - 1) \o ScaleChain(n - 1)

\* `[v${i}]`
Label(i) == <<"[v">> \o ToStr(i) \o <<"]">>

\* imagePaths.map((_, i) => `[v${i}]`).join('') for n paths
RECURSIVE JoinLabels(_)
JoinLabels(n) == IF n = 0 THEN <<>> ELSE JoinLabels(n - 1) \o Label(n - 1)

\* the same labels, last image first
RECURSIVE JoinLabels_Reversed(_)
JoinLabels_Reversed(n) == IF n = 0 THEN <<>> ELSE Label(n - 1) \o JoinLabels_Reversed(n - 1)

\* ConcatNode joining the labels in reverse order
ConcatNode_Reversed(n) ==
    JoinLabels_Reversed(n) \o <<"concat=n=">> \o ToStr(n) \o <<":v=1:a=0", "[v]">>

\* `${labels}concat=n=${imagePaths.length}:v=1:a=0[v]`
ConcatNode(n) == JoinLabels(n) \o <<"concat=n=">> \o ToStr(n) \o <<":v=1:a=0", "[v]">>

\* `...str` inside an array literal: one element per character of str (a
\* token stands for its characters)
Spread(str) == [k \in 1..Len(str) |-> <<str[k]>>]

\* the array handed to command.complexFilter([...]): the joined scale chains
\* are spread, the concat node is the last element
ComplexFilter(paths) == Spread(JoinChains(Len(paths))) \o <<ConcatNode(Len(paths))>>

\* '-t ' + 3, whatever the number of images
DurationOption_OneImage(paths) == <<"-t ">> \o ToStr(PerImageDuration)

\* '-t ' + (imagePaths.length * 3)
DurationOption(paths) == <<"-t ">> \o ToStr(Len(paths) * PerImageDuration)

\* command.outputOptions([...])
StreamOutputOptions(paths) ==
    << <<"-pix_fmt yuv420p">>, DurationOption(paths), <<"-preset ultrafast">> >>

\* ----------------------------------------- reading a job description back
DigitVal(d) == CHOOSE n \in 0..9 : Digits[n + 1] = d
\* the number a decimal string denotes
RECURSIVE ParseNum(_)
ParseNum(ds) == IF ds = <<>> THEN 0
                ELSE 10 * ParseNum(SubSeq(ds, 1, Len(ds) - 1)) + DigitVal(ds[Len(ds)])
\* first position >= k of token t in s, or 0
RECURSIVE Find(_, _, _)
Find(s, t, k) == IF k > Len(s) THEN 0 ELSE IF s[k] = t THEN k ELSE Find(s, t, k + 1)
\* the stream indices of the leading `[v<i>]` labels of a filter node, in order
RECURSIVE ParseLabels(_, _)
ParseLabels(node, k) ==
    IF k > Len(node) \/ node[k] # "[v" \/ Find(node, "]", k) = 0 THEN <<>>
    ELSE <<ParseNum(SubSeq(node, k + 1, Find(node, "]", k) - 1))>>
         \o ParseLabels(node, Find(node, "]", k) + 1)
\* the n of `concat=n=<n>:v=1:a=0`
ParseConcatCount(node) ==
    ParseNum(SubSeq(node, Find(node, "concat=n=", 1) + 1, Find(node, ":v=1:a=0", 1) - 1))
\* the seconds of a `-t <seconds>` option
ParseDuration(opt) == ParseNum(SubSeq(opt, 2, Len(opt)))

\* ============================================== text-overlay encode job
\* the options that follow the text in the drawtext filter
DrawtextFixedOptions ==
    <<"fontsize=50", "fontcolor=white", "x=(w-text_w)/2", "y=h-th-50", "box=1",
      "boxcolor=black@0.5", "boxborderw=10">>

\* `:fontsize=50:fontcolor=white:...:boxborderw=10`
RECURSIVE JoinFixedOptions(_)
JoinFixedOptions(n) ==
    IF n = 0 THEN <<>>
    ELSE JoinFixedOptions(n - 1) \o <<":", DrawtextFixedOptions[n]>>

\* the argument list of drawtext: `text='${title}':fontsize=50:...`
DrawtextArgs(t) ==
    <<"text=", "'">> \o Interp(t) \o <<"'">> \o JoinFixedOptions(Len(DrawtextFixedOptions))

\* `-vf drawtext=text='${title}':fontsize=50:...`
DrawtextOption(t) == <<"-vf ", "drawtext=">> \o DrawtextArgs(t)

\* the encoder's reading of a filter argument list: ':' separates options,
\* '...' quotes literally, a backslash outside quotes escapes the next character
RECURSIVE ScanArgs(_, _, _, _, _)
ScanArgs(str, k, inQuote, cur, acc) ==
    IF k > Len(str) THEN Append(acc, cur)
    ELSE IF inQuote
         THEN IF str[k] = "'" THEN ScanArgs(str, k + 1, FALSE, cur, acc)
              ELSE ScanArgs(str, k + 1, TRUE, Append(cur, str[k]), acc)
    ELSE IF str[k] = "'" THEN ScanArgs(str, k + 1, TRUE, cur, acc)
    ELSE IF str[k] = "\\"
         THEN IF k + 1 > Len(str) THEN Append(acc, cur)
              ELSE ScanArgs(str, k + 2, FALSE, Append(cur, str[k + 1]), acc)
    ELSE IF str[k] = ":" THEN ScanArgs(str, k + 1, FALSE, <<>>, Append(acc, cur))
    ELSE ScanArgs(str, k + 1, FALSE, Append(cur, str[k]), acc)
ParseArgs(str) == ScanArgs(str, 1, FALSE, <<>>, <<>>)

\* ================================================================ claims
OwnsSomething(r) ==
    \/ \E p \in DOMAIN dirs : dirs[p] = r
    \/ \E p \in DOMAIN files : files[p].owner = r

\* C1: once a request has finished (its response is complete), no scratch
\* directory or temporary file created on behalf of that request exists.
C1_NoLeftoverAfterResponse ==
    \A r \in Req : pc[r] = "done" => ~OwnsSomething(r)

\* C2: no two in-flight requests are assigned the same workspace path.
C2_UniqueWorkspaces ==
    \A r1, r2 \in Req :
        (r1 # r2 /\ InFlight(r1) /\ InFlight(r2)) => workDir[r1] # workDir[r2]

StreamOpenSt == {"opening", "flowing", "unpiped"}

\* C3: in the stream handler, the workspace holding a request's output file
\* is not removed while the read stream of that file is open.
C3_WorkspaceKeptWhileStreaming ==
    [][\A r \in Req :
          (/\ deployment = "stream"
           /\ streamSt[r] \in StreamOpenSt
           /\ streamSt'[r] \in StreamOpenSt
           /\ workDir[r] \in DOMAIN dirs) => workDir[r] \in DOMAIN dirs']_vars

LacksRequired(r) ==
    IF deployment = "stream" THEN Falsy(images[r])
    ELSE Falsy(title[r]) \/ Falsy(backgroundVideoUrl[r]) \/ Falsy(videoId[r])

\* C4: a request that lacks a required field is rejected with a validation
\* error; no workspace is created and no fetch, encode or publish starts.
C4_InvalidRequestRejected ==
    \A r \in Req :
        (pc[r] # "idle" /\ LacksRequired(r)) =>
            /\ Len(resp[r]) = 1
            /\ IsValidationError(resp[r][1])
            /\ fetches[r] = 0
            /\ encLaunches[r] = 0
            /\ ~publishStarted[r]
            /\ ~OwnsSomething(r)

\* C5: in image-sequence mode a fetch that does not succeed aborts the batch:
\* no later image is fetched, the encoder is never launched and the request
\* ends with a failure response; the encoder is launched only after all N
\* images were fetched successfully.
C5_FetchFailFast ==
    \A r \in Req :
        /\ \A k \in 1..Len(fetchLog[r]) :
              fetchLog[r][k] # "ok" =>
                  /\ k = Len(fetchLog[r])
                  /\ fetches[r] = k
                  /\ encLaunches[r] = 0
                  /\ pc[r] = "done"
                  /\ Len(resp[r]) = 1
                  /\ IsFailure(resp[r][1])
        /\ encLaunches[r] > 0 =>
              /\ Len(fetchLog[r]) = Len(images[r])
              /\ \A k \in 1..Len(fetchLog[r]) : fetchLog[r][k] = "ok"
              /\ Len(imagePaths[r]) = Len(images[r])

\* C5 witness: a request with several images whose fetch failed before the
\* last image, answered with a failure.
C5_Witness ==
    \E r \in Req :
        /\ Len(images[r]) >= 2
        /\ Len(fetchLog[r]) >= 1
        /\ Len(fetchLog[r]) < Len(images[r])
        /\ fetchLog[r][Len(fetchLog[r])] = "http_error"
        /\ pc[r] = "done"

\* C6: when the encoder reports an error the request ends with a failure
\* response carrying the encoder's diagnostic message, no publish step is
\* started and no success response is sent, stale output file or not.
C6_EncoderErrorFails ==
    \A r \in Req :
        encProc[r] = "Failed" =>
            /\ pc[r] = "done"
            /\ Len(resp[r]) = 1
            /\ IsFailure(resp[r][1])
            /\ Carries(resp[r][1].error, encDiag[r])
            /\ ~publishStarted[r]
            /\ ~HasSuccess(r)

\* C6 witness: an encoder failure while a stale file lies at the output path.
C6_Witness ==
    \E r \in Req : encProc[r] = "Failed" /\ OutputPath(r) \in DOMAIN files

\* C7: if the encoder reports completion but the output file is missing or
\* empty, the request does not proceed to publish and does not return success.
C7_NoPublishWithoutOutput ==
    \A r \in Req :
        encOutcome[r] \in {"missing", "empty"} => ~publishStarted[r] /\ ~HasSuccess(r)

\* C8: in the upload handler a success response is sent only after the upload
\* completed successfully, its videoUrl is the location the storage backend
\* returned, and a failed upload ends in a failure response, never a success.
C8_SuccessOnlyAfterUpload ==
    \A r \in Req :
        /\ \A k \in 1..Len(resp[r]) :
              IsSuccess(resp[r][k]) =>
                  /\ uploadSt[r] = "ok"
                  /\ OutputFileName(videoId[r]) \in DOMAIN s3
                  /\ "videoUrl" \in resp[r][k].fields
                  /\ resp[r][k].videoUrl = s3Result[r]
                  /\ s3Result[r] = LocationOf(OutputFileName(videoId[r]))
        /\ uploadSt[r] = "failed" =>
              /\ pc[r] = "done"
              /\ Len(resp[r]) = 1
              /\ IsFailure(resp[r][1])

\* C8 witness: one request answered with success after its upload, another
\* whose upload failed.
C8_Witness ==
    \E r1, r2 \in Req :
        /\ HasSuccess(r1) /\ uploadSt[r1] = "ok"
        /\ uploadSt[r2] = "failed" /\ encOutcome[r2] # "missing"

\* C9: once a request is cancelled its encoder subprocess is no longer
\* running and its open streams are aborted.
C9_CancelStopsWork ==
    \A r \in Req :
        cancelled[r] =>
            /\ encProc[r] # "Running"
            /\ streamSt[r] \notin {"opening", "flowing"}
            /\ uploadSt[r] # "inflight"

\* C10: a request whose fetch, download, encoder or upload never completes
\* is ended by an enforced bound and gets a (failure) response.
C10_HangIsAnswered ==
    \A r \in Req : (stalled[r] /\ ~crashed) ~> (Len(resp[r]) > 0 \/ crashed)

C12_DurationDeclared ==
    \A r \in Req :
        encLaunches[r] > 0 =>
            /\ Len(images[r]) >= 1
            /\ Len(encInputs[r]) = Len(images[r])
            /\ \E k \in 1..Len(StreamOutputOptions(encInputs[r])) :
                  StreamOutputOptions(encInputs[r])[k][1] = "-t "
            /\ \A k \in 1..Len(StreamOutputOptions(encInputs[r])) :
                  StreamOutputOptions(encInputs[r])[k][1] = "-t " =>
                      ParseDuration(StreamOutputOptions(encInputs[r])[k])
                          = Len(images[r]) * PerImageDuration

\* C12 witness: an encoder launched on more than one image.
C12_Witness ==
    \E r \in Req : encLaunches[r] > 0 /\ Len(encInputs[r]) >= 2

\* C13: in text-overlay mode the composed drawtext filter is one well-formed
\* expression whose text argument is exactly the title and whose remaining
\* options are unchanged, also for titles with a colon, quote or backslash.
C13_TitleEscaped ==
    \A r \in Req :
        (deployment = "upload" /\ encLaunches[r] > 0) =>
            ParseArgs(DrawtextArgs(title[r])) =
                << <<"text=">> \o Interp(title[r]) >>
                \o [i \in 1..Len(DrawtextFixedOptions) |-> <<DrawtextFixedOptions[i]>>]

\* C14: cleanup tolerates already-removed state: when the output file or the
\* scratch directory is already gone, the cleanup step raises no error and
\* the request's outcome is unchanged (a request whose upload succeeded still
\* ends in success).
C14_CleanupTolerant ==
    \A r \in Req :
        (pc[r] = "done" /\ uploadSt[r] = "ok") => (HasSuccess(r) /\ ~HasFailure(r))

\* C15: in the upload handler no two in-flight requests upload to the same
\* object-storage key or produce their output at the same local path.
C15_UniqueOutputKeys ==
    \A r1, r2 \in Req :
        (deployment = "upload" /\ r1 # r2 /\ InFlight(r1) /\ InFlight(r2)) =>
            /\ OutputFileName(videoId[r1]) # OutputFileName(videoId[r2])
            /\ OutputPath(r1) # OutputPath(r2)

\* C16: every JSON response has the uniform envelope: success is true and a
\* video URL is present, or success is false and an error message is present.
C16_UniformEnvelope ==
    \A r \in Req : \A k \in 1..Len(resp[r]) :
        resp[r][k].kind = "json" =>
            /\ "success" \in resp[r][k].fields
            /\ resp[r][k].success => "videoUrl" \in resp[r][k].fields
            /\ ~resp[r][k].success => "error" \in resp[r][k].fields

\* C17: in text-overlay mode the encoder is launched only after a single
\* fetch of backgroundVideoUrl into the request's workspace has completed,
\* and the encoder's one input is that fetched file.
C17_BackgroundFetchedFirst ==
    \A r \in Req :
        (deployment = "upload" /\ encLaunches[r] > 0) =>
            /\ fetches[r] = 1
            /\ Len(encInputs[r]) = 1
            /\ encInputs[r][1] \in DOMAIN files
            /\ files[encInputs[r][1]].owner = r

\* C18: the encoder is launched at most once per request; after the encoder
\* reported a failure the request never starts it again.
C18_EncoderLaunchedOnce ==
    [][\A r \in Req :
          /\ encLaunches'[r] <= 1
          /\ encProc[r] = "Failed" =>
                (encProc'[r] = "Failed" /\ encLaunches'[r] = encLaunches[r])]_vars

\* C18 witness: a request whose only encoder run failed and that is finished.
C18_Witness ==
    \E r \in Req : encProc[r] = "Failed" /\ encLaunches[r] = 1 /\ pc[r] = "done"

\* C19: in the upload handler a local output file is never deleted or
\* overwritten by one request while another request is uploading from it.
C19_OutputFileNotClobbered ==
    [][\A r \in Req :
          (/\ deployment = "upload"
           /\ pc[r] = "upload" /\ pc'[r] = "upload"
           /\ OutputPath(r) \in DOMAIN files
           /\ files[OutputPath(r)].owner = r)
          => (/\ OutputPath(r) \in DOMAIN files'
              /\ files'[OutputPath(r)].owner = r)]_vars

\* C20: every request is answered at most once: never an error response and
\* a success response or stream, never two error responses.
C20_AnsweredAtMostOnce ==
    \A r \in Req : Len(resp[r]) <= 1

\* C20 witness: a request whose upload succeeded, whose cleanup then threw,
\* and which got exactly one response.
C20_Witness ==
    \E r \in Req :
        /\ pc[r] = "done"
        /\ uploadSt[r] = "ok"
        /\ HasFailure(r)
        /\ Len(resp[r]) = 1

====
